---- MODULE Spec2Model ----
(***************************************************************************)
(* Sub-reward Soft Actor-Critic training (sac/train.py, sac/losses.py,     *)
(* sac/acting.py, util/types.py): the epoch scheduler of train(), the      *)
(* gradient update step sgd_step, experience collection, the replay queue  *)
(* and the device-parallel replicas.                                       *)
(*                                                                         *)
(* Replicas run the pmapped functions in lockstep (every pmapped step      *)
(* holds a collective over axis 'i'), so one action is one step of the     *)
(* pmapped function on all replicas of all host processes, and one step of *)
(* the host code of train() on every host process.  Networks, optimizer    *)
(* and simulator                                                           *)
(* are external: a parameter set is a number, a gradient is a checksum of  *)
(* everything the loss was given, the simulator is a deterministic         *)
(* function of its state and the action.  Random keys are derivation       *)
(* paths from the seed.                                                    *)
(*                                                                         *)
(* A training state has exactly the fields its constructor calls assign,   *)
(* which are fewer than TrainingState declares, and the evaluation is      *)
(* taken to complete although generate_unroll's call of actor_step does    *)
(* not bind: Spec and SpecEval describe the run the code defines beyond    *)
(* these two points, where Python raises TypeError.  SpecUnroll describes  *)
(* generate_unroll as it is.                                               *)
(***************************************************************************)
EXTENDS Integers, Sequences, FiniteSets, TLC

VARIABLES
  cfg,            \* the configuration train() was called with
  pc,             \* position in train()
  err,            \* the exception that ended the run, "none" otherwise
  ts,             \* training_state, one copy per replica
  env_state,      \* env_state, per replica: the observation of each env
  buffer_state,   \* ReplayBufferState per replica
  local_key,      \* local_key of each host process
  keys,           \* the key carried by the running pmapped scan, per replica
  it,             \* iterations completed by the running scan
  epochs,         \* epochs completed
  current_step,   \* train()'s current_step
  transitions,    \* the sampled batch of training_step, reshaped, per replica
  nsgd,           \* sgd_step calls completed in the current training_step
  sgd,            \* locals of the running sgd_step, per replica
  args,           \* what each update of the running sgd_step was given
  evaluator,      \* the Evaluator of each host process
  io,             \* per host process: progress_fn calls, saved checkpoints
  hist            \* counters of the operations performed so far

vars == <<cfg, pc, err, ts, env_state, buffer_state, local_key, keys, it,
          epochs, current_step, transitions, nsgd, sgd, args, evaluator, io,
          hist>>

----------------------------------------------------------------------------
(* Bounds of the model. *)
MaxTimesteps == 6
MaxReplaySize == 4
MaxDevices == 2
MaxGradUpdates == 2

NumEnvsChoices == {2, 3}
ActionRepeatChoices == {1, 2}
NumEvalsChoices == {1, 2, 3}
BatchSizeChoices == {2, 3}
SeedChoices == {1}
ProcessCountChoices == {1, 2}

(* cfg.ENV.REWARD_DICT[cfg.ENV.ENV_NAME].keys(), numbered. *)
RewardKeys == {1, 2}

(* Arithmetic of parameter values and observations is modulo these. *)
ParamMod == 5
ObsMod == 3

AllConfigs ==
  [ num_timesteps : 1..MaxTimesteps,
    min_replay_size : 1..MaxReplaySize,
    max_replay_size : (1..MaxReplaySize) \cup {-1},   \* -1: None
    num_envs : NumEnvsChoices,
    action_repeat : ActionRepeatChoices,
    num_evals : NumEvalsChoices,
    batch_size : BatchSizeChoices,
    grad_updates_per_step : 1..MaxGradUpdates,
    device_count : 1..MaxDevices,
    process_count : ProcessCountChoices,
    seed : SeedChoices ]

(* device_count is the total over the host processes, each of which uses   *)
(* device_count / process_count local devices.                             *)
Configs == {c \in AllConfigs : c.device_count % c.process_count = 0}

----------------------------------------------------------------------------
(* Helpers. *)
Min(a, b) == IF a <= b THEN a ELSE b
Max(a, b) == IF a >= b THEN a ELSE b

RECURSIVE SumSeq(_)
SumSeq(s) == IF s = <<>> THEN 0 ELSE Head(s) + SumSeq(Tail(s))

RECURSIVE WSum(_)
(* A position-weighted checksum of a sequence of numbers. *)
WSum(s) ==
  IF s = <<>> THEN 0
  ELSE Len(s) * s[Len(s)] + WSum(SubSeq(s, 1, Len(s) - 1))

RECURSIVE SumOver(_, _)
(* The sum of f over the finite set S of its domain. *)
SumOver(f, S) ==
  IF S = {} THEN 0
  ELSE LET x == CHOOSE y \in S : TRUE IN f[x] + SumOver(f, S \ {x})

----------------------------------------------------------------------------
(* Random keys: a key is its derivation path from PRNGKey(seed). *)
PRNGKey(seed) == <<seed>>
Split(key, n) == [i \in 1..n |-> Append(key, i)]
FoldIn(key, data) == Append(key, 10 + data)
KeyHash(key) == WSum(key)
(* jax.random.randint(key, (n,), 0, maxval), the i-th draw. *)
RandInt(key, i, maxval) == (KeyHash(key) + i * i) % maxval

----------------------------------------------------------------------------
(* Quantities train() derives from the configuration. *)
Replicas == 1..cfg.device_count

(* jax.process_index() of each host process, and its local devices: the   *)
(* devices of process p are the replicas p * local_devices_to_use + 1 ...  *)
Processes == 0..(cfg.process_count - 1)
local_devices_to_use == cfg.device_count \div cfg.process_count
ProcessOf(r) == (r - 1) \div local_devices_to_use
LocalIndex(r) == ((r - 1) % local_devices_to_use) + 1
LocalReplicas(p) == {r \in Replicas : ProcessOf(r) = p}

max_replay_size ==
  IF cfg.max_replay_size = -1 THEN cfg.num_timesteps ELSE cfg.max_replay_size

env_steps_per_actor_step == cfg.action_repeat * cfg.num_envs

num_prefill_actor_steps_floor == cfg.min_replay_size \div cfg.num_envs
num_prefill_actor_steps == -((-cfg.min_replay_size) \div cfg.num_envs)

num_prefill_env_steps_no_repeat == num_prefill_actor_steps * cfg.num_envs
num_prefill_env_steps == num_prefill_actor_steps * env_steps_per_actor_step

num_evals_after_init == Max(cfg.num_evals - 1, 1)

num_training_steps_per_epoch_floor ==
  (cfg.num_timesteps - num_prefill_env_steps)
    \div (num_evals_after_init * env_steps_per_actor_step)

num_training_steps_per_epoch ==
  -((-(cfg.num_timesteps - num_prefill_env_steps))
      \div (num_evals_after_init * env_steps_per_actor_step))

(* Envs per replica: env_keys reshaped to (local_devices_to_use, -1). *)
envs_per_replica ==
  (cfg.num_envs \div cfg.process_count) \div local_devices_to_use

(* The arguments of replay_buffers.UniformSamplingQueue. *)
Capacity == max_replay_size \div cfg.device_count
sample_batch_size ==
  (cfg.batch_size * cfg.grad_updates_per_step) \div cfg.device_count

----------------------------------------------------------------------------
(* Transitions and the simulator. *)

(* dummy_transition: what an unwritten slot of the queue holds.  id names  *)
(* the record: <<replica, serial number of the record on that replica>>.   *)
ZeroTransition ==
  [ id |-> <<0, 0>>, observation |-> 0, action |-> 0, reward |-> 0,
    sub_rewards |-> [k \in RewardKeys |-> 0], discount |-> 0,
    next_observation |-> 0, truncation |-> 0 ]

(* make_policy((normalizer_params, policy_params))(obs, key), env j. *)
Policy(normalizer_params, policy_params, obs, key, j) ==
  (policy_params + normalizer_params.total + obs + KeyHash(key) + j) % ObsMod

(* env.step: the next observation, done flag, truncation flag and the     *)
(* reward metrics of one env.                                              *)
EnvStepObs(obs, action) == (obs + action + 1) % ObsMod
EnvDone(nobs) == IF nobs = 0 THEN 1 ELSE 0
EnvTruncation(nobs, action) == IF nobs = 0 /\ action = 0 THEN 1 ELSE 0
EnvMetric(nobs, action, k) == (nobs + action + k) % 2

(* nstate.metrics: the env reports the reward terms and other metrics. *)
MetricKeys == RewardKeys \cup {0}
EnvMetrics(nobs, action) == [k \in MetricKeys |-> EnvMetric(nobs, action, k)]

(* {k: nstate.metrics[k] for k in reward_dict.keys()} *)
SubRewardsAllMetrics(metrics) == metrics
SubRewards(metrics) == [k \in RewardKeys |-> metrics[k]]

(* acting.actor_step on replica r: the transitions of its envs, in order. *)
actor_step(r, env, normalizer_params, policy_params, key, serial) ==
  [ j \in 1..Len(env) |->
      LET action == Policy(normalizer_params, policy_params, env[j], key, j)
          nobs == EnvStepObs(env[j], action)
          sub == SubRewards(EnvMetrics(nobs, action))
      IN [ id |-> <<r, serial + j>>,
           observation |-> env[j],
           action |-> action,
           reward |-> SumOver(sub, RewardKeys),
           sub_rewards |-> sub,
           discount |-> 1 - EnvDone(nobs),
           next_observation |-> nobs,
           truncation |-> EnvTruncation(nobs, action) ] ]

(* The env_state actor_step returns. *)
NextEnvState(trans) == [j \in 1..Len(trans) |-> trans[j].next_observation]

----------------------------------------------------------------------------
(* acting.generate_unroll. *)

(* The parameters of actor_step: those without a default and those with    *)
(* one; and the arguments the call in generate_unroll's scan body passes.  *)
ActorStepRequired == {"env", "env_state", "policy", "key", "reward_dict"}
ActorStepOptional == {"extra_fields"}
UnrollActorStepArgs == {"env", "env_state", "policy", "key", "extra_fields"}

(* A call binds when every parameter without a default is passed and every *)
(* argument names a parameter; otherwise it raises TypeError.              *)
CallBinds(passed, required, optional) ==
  required \subseteq passed /\ passed \subseteq (required \cup optional)

(* jax.lax.scan(f, (env_state, key), (), length=n): the final state and    *)
(* the transitions stacked in order.  policy is the pair of parameters     *)
(* the policy was made from.                                               *)
RECURSIVE UnrollScan(_, _, _, _, _)
UnrollScan(state, key, policy, n, data) ==
  IF n = 0
    THEN [ final_state |-> state, data |-> data ]
    ELSE LET current_key == Split(key, 2)[1]
             next_key == Split(key, 2)[2]
             trans == actor_step(0, state, policy.normalizer_params,
                                 policy.policy_params, current_key,
                                 Len(data) * Len(state))
         IN UnrollScan(NextEnvState(trans), next_key, policy, n - 1,
                       Append(data, trans))

(* generate_unroll: the scan body is traced when the scan is built, and    *)
(* its call of actor_step has to bind.                                     *)
generate_unroll(state, policy, key, unroll_length) ==
  IF CallBinds(UnrollActorStepArgs, ActorStepRequired, ActorStepOptional)
    THEN LET u == UnrollScan(state, key, policy, unroll_length, <<>>)
         IN [ error |-> "none", final_state |-> u.final_state,
              data |-> u.data ]
    ELSE [ error |-> "TypeError", final_state |-> <<>>, data |-> <<>> ]

----------------------------------------------------------------------------
(* Observation statistics: running_statistics.update with pmap_axis_name. *)
ObsSum(trans) == SumSeq([j \in 1..Len(trans) |-> trans[j].observation])

NormalizerUpdate(r, normalizer_params, trans) ==
  [ count |-> normalizer_params.count
                + SumOver([q \in Replicas |-> Len(trans[q])], Replicas),
    total |-> (normalizer_params.total
                + SumOver([q \in Replicas |-> ObsSum(trans[q])], Replicas))
              % ParamMod ]

----------------------------------------------------------------------------
(* The replay queue (replay_buffers.UniformSamplingQueue). *)
BufferInit(key) ==
  [ data |-> [i \in 1..Capacity |-> ZeroTransition],
    current_position |-> 0,
    current_size |-> 0,
    key |-> key ]

BufferInsertUncapped(b, batch) ==
  LET cap == Len(b.data)
      n == Len(batch)
      slot(i) == ((b.current_position + i - 1) % cap) + 1
  IN [ b EXCEPT
         !.data = [p \in 1..cap |->
                     IF \E i \in 1..n : slot(i) = p
                     THEN batch[CHOOSE i \in 1..n : slot(i) = p]
                     ELSE b.data[p]],
         !.current_position = (b.current_position + n) % cap,
         !.current_size = b.current_size + n ]

BufferInsertNoWrap(b, batch) ==
  LET cap == Len(b.data)
      n == Len(batch)
      start == Min(b.current_position, cap - n)
  IN [ b EXCEPT
         !.data = [p \in 1..cap |->
                     IF p - start \in 1..n THEN batch[p - start]
                     ELSE b.data[p]],
         !.current_position = (b.current_position + n) % cap,
         !.current_size = Min(b.current_size + n, cap) ]

(* insert: the records go to current_position .. , wrapping around. *)
BufferInsert(b, batch) ==
  LET cap == Len(b.data)
      n == Len(batch)
      slot(i) == ((b.current_position + i - 1) % cap) + 1
  IN [ b EXCEPT
         !.data = [p \in 1..cap |->
                     IF \E i \in 1..n : slot(i) = p
                     THEN batch[CHOOSE i \in 1..n : slot(i) = p]
                     ELSE b.data[p]],
         !.current_position = (b.current_position + n) % cap,
         !.current_size = Min(b.current_size + n, cap) ]

(* insert fails when the batch is larger than the queue. *)
InsertFitsAlways(n) == TRUE
InsertFits(n) == n <= Capacity

SampleIndicesAnySlot(b) ==
  LET sample_key == Split(b.key, 2)[2]
  IN [i \in 1..sample_batch_size |-> RandInt(sample_key, i, Len(b.data))]

(* sample: the indices drawn, each in [0, current_size). *)
SampleIndices(b) ==
  LET sample_key == Split(b.key, 2)[2]
  IN [i \in 1..sample_batch_size |-> RandInt(sample_key, i, b.current_size)]

BufferSample(b) ==
  LET idx == SampleIndices(b)
  IN [ state |-> [b EXCEPT !.key = Split(b.key, 2)[1]],
       batch |-> [i \in 1..sample_batch_size |-> b.data[idx[i] + 1]] ]

BufferSize(b) == b.current_size

(* training_step's reshape of the sample to (grad_updates_per_step, -1). *)
ReshapeOK == sample_batch_size % cfg.grad_updates_per_step = 0
Reshape(batch) ==
  LET m == Len(batch) \div cfg.grad_updates_per_step
  IN [g \in 1..cfg.grad_updates_per_step |->
        SubSeq(batch, (g - 1) * m + 1, g * m)]

----------------------------------------------------------------------------
(* Training state. *)

(* A target parameter set is a fraction num / den; Rat(x) is x / 1. *)
Rat(x) == [num |-> x, den |-> 1]
RatHash(t) == (t.num + t.den) % ParamMod

(* The fields the TrainingState dataclass declares, none with a default. *)
TrainingStateFields ==
  { "policy_params", "policy_optimizer_state", "sub_policy_params",
    "sub_policy_optimizer_state", "sub_q_params", "sub_q_optimizer_state",
    "sub_target_q_params", "gradient_steps", "env_steps", "alpha_params",
    "alpha_optimizer_state", "sub_alpha_params", "sub_alpha_optimizer_state",
    "normalizer_params" }

(* network.init(key) of a policy or Q network. *)
NetworkInit(key) == KeyHash(key) % ParamMod

(* _init_training_state: the state replicated onto every replica. *)
InitTrainingState(key) ==
  LET key_policy == Split(key, 3)[1]
      key_sub_policy == Split(key, 3)[2]
      key_sub_q == Split(key, 3)[3]
      keydict_sub_policy == [k \in RewardKeys |-> FoldIn(key_sub_policy, k)]
      keydict_sub_q == [k \in RewardKeys |-> FoldIn(key_sub_q, k)]
      sub_q_params == [k \in RewardKeys |-> NetworkInit(keydict_sub_q[k])]
  IN [ policy_params |-> NetworkInit(key_policy),
       policy_optimizer_state |-> 0,
       sub_policy_params |->
         [k \in RewardKeys |-> NetworkInit(keydict_sub_policy[k])],
       sub_policy_optimizer_state |-> 0,
       sub_q_params |-> sub_q_params,
       sub_q_optimizer_state |-> 0,
       sub_target_q_params |-> [k \in RewardKeys |-> Rat(sub_q_params[k])],
       gradient_steps |-> 0,
       env_steps |-> 0,
       alpha_optimizer_state |-> 0,
       alpha_params |-> 0,
       normalizer_params |-> [count |-> 0, total |-> 0] ]

----------------------------------------------------------------------------
(* Losses (sac/losses.py): the local gradient of each loss on a minibatch  *)
(* is a checksum of everything the loss reads.                             *)
LocalGrad(xs) == WSum(xs) % ParamMod

Exp(log_alpha) == (2 * log_alpha + 1) % ParamMod

MbObs(mb) == SumSeq([j \in 1..Len(mb) |-> mb[j].observation])

(* _critic_loss: what the TD error of a record is computed from, its      *)
(* observation and action (q_old_action) and its reward, discount and     *)
(* next observation (target_q).                                            *)
TdError(rec, k) ==
  rec.observation + rec.action + rec.sub_rewards[k]
    + rec.discount * rec.next_observation

q_error_no_mask(rec, k) == TdError(rec, k)

(* q_error *= 1 - truncation *)
q_error(rec, k) == TdError(rec, k) * (1 - rec.truncation)

(* jnp.square(q_error) of each record, summed over the minibatch. *)
MbTd(mb, k) ==
  SumSeq([j \in 1..Len(mb) |-> q_error(mb[j], k) * q_error(mb[j], k)])

critic_loss(q_params, policy_params, normalizer_params, target_q_params, alpha, mb, k, key) ==
  LocalGrad(<<q_params, policy_params, normalizer_params.total,
              RatHash(target_q_params), alpha, MbTd(mb, k), KeyHash(key)>>)

actor_loss(policy_params, normalizer_params, q_params, alpha, mb, key) ==
  LocalGrad(<<policy_params, normalizer_params.total, q_params, alpha,
              MbObs(mb), KeyHash(key)>>)

alpha_loss(a, mb) ==
  LocalGrad(<<a.alpha_params, a.policy_params, a.normalizer_params.total,
              MbObs(mb), KeyHash(a.key)>>)

sub_q_loss(a, mb) ==
  [k \in RewardKeys |->
     critic_loss(a.sub_q_params[k], a.sub_policy_params[k],
                 a.normalizer_params, a.sub_target_q_params[k], a.alpha,
                 mb, k, FoldIn(a.key, k))]

sub_policy_loss(a, mb) ==
  [k \in RewardKeys |->
     actor_loss(a.sub_policy_params[k], a.normalizer_params,
                a.sub_q_params[k], a.alpha, mb, FoldIn(a.key, k))]

policy_loss(a, mb) ==
  LocalGrad(<<a.policy_params, a.normalizer_params.total,
              SumOver(a.sub_q_params, RewardKeys), a.alpha,
              MbObs(mb), KeyHash(a.key)>>)

----------------------------------------------------------------------------
(* gradients.gradient_update_fn(loss, optimizer, pmap_axis_name='i'):      *)
(* the local gradients g[r] are averaged over the replicas and the         *)
(* optimizer applies the average.                                          *)
PMean(g) == SumOver(g, Replicas) \div cfg.device_count

GradientUpdateLocal(r, params, g) == (params + g[r]) % ParamMod
GradientUpdate(r, params, g) == (params + PMean(g)) % ParamMod

GradientUpdateDict(r, params, g) ==
  [k \in RewardKeys |->
     GradientUpdate(r, params[k], [q \in Replicas |-> g[q][k]])]

(* The soft update of the targets, x * (1 - tau) + y * tau on every leaf,   *)
(* with tau = 1 / TauDen and the targets kept as exact fractions.          *)
TauDen == 2

TargetUpdateHardCopy(target, new_q) == [k \in RewardKeys |-> Rat(new_q[k])]

TargetUpdate(target, new_q) ==
  [k \in RewardKeys |->
     [ num |-> target[k].num * (TauDen - 1) + new_q[k] * target[k].den,
       den |-> target[k].den * TauDen ]]

----------------------------------------------------------------------------
(* acting.Evaluator and the metrics mappings.  A mapping is a function     *)
(* from metric names to values; clock readings are in whole units.         *)

episode_length == 2
num_eval_envs == 2

EmptyMetrics == [k \in {} |-> 0]

(* {**a, **b}: the entries of a, then those of b over them. *)
MergeMetrics(a, b) ==
  [k \in DOMAIN a \cup DOMAIN b |-> IF k \in DOMAIN b THEN b[k] ELSE a[k]]

(* Evaluator.__init__ *)
EvaluatorInit(key) ==
  [ key |-> key, eval_walltime |-> 0, evals |-> 0,
    steps_per_unroll |-> episode_length * num_eval_envs ]

(* generate_eval_unroll: the mean episode reward and length of the unroll. *)
EvalEpisodeReward(policy_params, key) ==
  (policy_params.policy_params + policy_params.normalizer_params.total
     + KeyHash(key)) % ParamMod
EvalEpisodeSteps(policy_params, key) ==
  1 + ((policy_params.policy_params + KeyHash(key)) % episode_length)

(* The metrics of one evaluation before the merge. *)
EvalMetrics(ev, policy_params, unroll_key, epoch_eval_time) ==
  [k \in {"eval/episode_reward", "eval/avg_episode_length",
          "eval/epoch_eval_time", "eval/sps"} |->
     CASE k = "eval/episode_reward" ->
            EvalEpisodeReward(policy_params, unroll_key)
       [] k = "eval/avg_episode_length" ->
            EvalEpisodeSteps(policy_params, unroll_key)
       [] k = "eval/epoch_eval_time" -> epoch_eval_time
       [] k = "eval/sps" -> ev.steps_per_unroll \div epoch_eval_time]

(* Evaluator.run_evaluation, the unroll taking epoch_eval_time: the new    *)
(* Evaluator and the mapping returned.                                     *)
run_evaluation(ev, policy_params, training_metrics, epoch_eval_time) ==
  LET unroll_key == Split(ev.key, 2)[2]
      metrics == EvalMetrics(ev, policy_params, unroll_key, epoch_eval_time)
      eval_walltime == ev.eval_walltime + epoch_eval_time
  IN [ evaluator |->
         [ev EXCEPT !.key = Split(ev.key, 2)[1],
                    !.eval_walltime = eval_walltime,
                    !.evals = ev.evals + 1],
       metrics |->
         MergeMetrics(
           MergeMetrics([k \in {"eval/walltime"} |-> eval_walltime],
                        training_metrics),
           metrics) ]

(* A key handed to a consumer: jax.random.split, env.reset or the sampler  *)
(* of the policy.                                                          *)
KeyUse(key, by) == [ key |-> key, by |-> by ]

(* The keys the scan of generate_unroll hands out in n iterations: the     *)
(* carried key to the split, the first half to the policy in actor_step.   *)
RECURSIVE UnrollKeys(_, _)
UnrollKeys(key, n) ==
  IF n = 0
    THEN <<>>
    ELSE <<KeyUse(key, "split"), KeyUse(Split(key, 2)[1], "policy")>>
           \o UnrollKeys(Split(key, 2)[2], n - 1)

(* The keys one call of run_evaluation hands out, in order: self._key to   *)
(* the split; in generate_eval_unroll, key to the split into reset keys,   *)
(* each reset key to eval_env.reset, and key to generate_unroll.           *)
EvalKeys(ev) ==
  LET unroll_key == Split(ev.key, 2)[2]
  IN <<KeyUse(ev.key, "split"), KeyUse(unroll_key, "split")>>
       \o [j \in 1..num_eval_envs |->
             KeyUse(Split(unroll_key, num_eval_envs)[j], "reset")]
       \o UnrollKeys(unroll_key, episode_length \div cfg.action_repeat)

----------------------------------------------------------------------------
(* train(): start-up. *)

Init ==
  /\ cfg \in Configs
  /\ pc = "start"
  /\ err = "none"
  /\ ts = <<>>
  /\ env_state = <<>>
  /\ buffer_state = <<>>
  /\ local_key = <<>>
  /\ keys = <<>>
  /\ it = 0
  /\ epochs = 0
  /\ current_step = 0
  /\ transitions = <<>>
  /\ nsgd = 0
  /\ sgd = <<>>
  /\ args = <<>>
  /\ evaluator = <<>>
  /\ io = <<>>
  /\ hist = [ prefill_steps |-> 0, inserted |-> <<>>, actor |-> 0,
              sample |-> 0, sgd |-> 0, consumed |-> <<>>, gs_start |-> 0 ]

Fail(e) == pc' = "failed" /\ err' = e

CheckConfigNoDivisibility ==
  /\ pc = "start"
  /\ IF cfg.min_replay_size >= cfg.num_timesteps
       THEN Fail("ValueError")
     ELSE IF ~(cfg.num_timesteps - num_prefill_env_steps >= 0)
       THEN Fail("AssertionError: prefill env steps")
     ELSE pc' = "init" /\ err' = err
  /\ UNCHANGED <<cfg, ts, env_state, buffer_state, local_key, keys, it,
                 epochs, current_step, transitions, nsgd, sgd, args,
                 evaluator, io, hist>>

(* The checks of the configuration before anything is built. *)
CheckConfig ==
  /\ pc = "start"
  /\ IF cfg.min_replay_size >= cfg.num_timesteps
       THEN Fail("ValueError")
     ELSE IF ~(cfg.num_timesteps - num_prefill_env_steps >= 0)
       THEN Fail("AssertionError: prefill env steps")
     ELSE IF cfg.num_envs % cfg.device_count # 0
       THEN Fail("AssertionError: num_envs")
     ELSE pc' = "init" /\ err' = err
  /\ UNCHANGED <<cfg, ts, env_state, buffer_state, local_key, keys, it,
                 epochs, current_step, transitions, nsgd, sgd, args,
                 evaluator, io, hist>>

(* Keys, training state, env reset, queue init, Evaluator, on every host   *)
(* process p (process_id = p).                                             *)
InitState ==
  /\ pc = "init"
  /\ LET global_key == Split(PRNGKey(cfg.seed), 2)[1]
         local0(p) == FoldIn(Split(PRNGKey(cfg.seed), 2)[2], p)
         rb_key(p) == Split(local0(p), 4)[2]
         env_key(p) == Split(local0(p), 4)[3]
         eval_key(p) == Split(local0(p), 4)[4]
         env_keys(p) == Split(env_key(p), cfg.num_envs \div cfg.process_count)
     IN /\ ts' = [r \in Replicas |-> InitTrainingState(global_key)]
        /\ local_key' = [p \in Processes |-> Split(local0(p), 4)[1]]
        /\ env_state' =
             [r \in Replicas |->
                [j \in 1..envs_per_replica |->
                   KeyHash(env_keys(ProcessOf(r))
                             [(LocalIndex(r) - 1) * envs_per_replica + j])
                     % ObsMod]]
        /\ buffer_state' =
             [r \in Replicas |->
                BufferInit(Split(rb_key(ProcessOf(r)),
                                 local_devices_to_use)[LocalIndex(r)])]
        /\ evaluator' = [p \in Processes |-> EvaluatorInit(eval_key(p))]
  /\ io' = [p \in Processes |-> <<>>]
  /\ hist' = [hist EXCEPT !.inserted = [r \in Replicas |-> 0]]
  /\ pc' = "initial_eval"
  /\ UNCHANGED <<cfg, err, keys, it, epochs, current_step, transitions, nsgd,
                 sgd, args>>

(* _unpmap((training_state.normalizer_params, training_state.policy_params)) *)
(* on host process p: the copy of its first local device.                  *)
FirstLocal(p) == p * local_devices_to_use + 1
Params(p) ==
  [ normalizer_params |-> ts[FirstLocal(p)].normalizer_params,
    policy_params |-> ts[FirstLocal(p)].policy_params ]

(* What a host process does to the outside, in the order it does it. *)
Event(op, step, data) == [op |-> op, step |-> step, data |-> data]

InitialEvalAlways(p) ==
  LET e == run_evaluation(evaluator[p], Params(p), EmptyMetrics, 1)
  IN IF p = 0
       THEN [ evaluator |-> e.evaluator,
              io |-> io[p] \o << Event("eval", 0, Params(p)),
                                 Event("progress", 0, e.metrics) >> ]
       ELSE [ evaluator |-> evaluator[p], io |-> io[p] ]

(* The initial evaluation, on process 0 when num_evals > 1. *)
InitialEvalOf(p) ==
  IF p = 0 /\ cfg.num_evals > 1
    THEN LET e == run_evaluation(evaluator[p], Params(p), EmptyMetrics, 1)
         IN [ evaluator |-> e.evaluator,
              io |-> io[p] \o << Event("eval", 0, Params(p)),
                                 Event("progress", 0, e.metrics) >> ]
    ELSE [ evaluator |-> evaluator[p], io |-> io[p] ]

InitialEval ==
  /\ pc = "initial_eval"
  /\ evaluator' = [p \in Processes |-> InitialEvalOf(p).evaluator]
  /\ io' = [p \in Processes |-> InitialEvalOf(p).io]
  /\ pc' = "prefill_start"
  /\ UNCHANGED <<cfg, err, ts, env_state, buffer_state, local_key, keys, it,
                 epochs, current_step, transitions, nsgd, sgd, args, hist>>

----------------------------------------------------------------------------
(* Experience collection. *)

get_experience_drops_insert(key) ==
  LET trans == [r \in Replicas |->
                  actor_step(r, env_state[r], ts[r].normalizer_params,
                             ts[r].policy_params, key[r], hist.inserted[r])]
  IN [r \in Replicas |->
        [ normalizer_params |->
            NormalizerUpdate(r, ts[r].normalizer_params, trans),
          env_state |-> NextEnvState(trans[r]),
          buffer_state |-> buffer_state[r],
          inserted |-> hist.inserted[r] + Len(trans[r]) ]]

(* get_experience on every replica, key[r] the key of replica r: the new   *)
(* normalizer_params, env_state and buffer_state of each replica.          *)
get_experience(key) ==
  LET trans == [r \in Replicas |->
                  actor_step(r, env_state[r], ts[r].normalizer_params,
                             ts[r].policy_params, key[r], hist.inserted[r])]
  IN [r \in Replicas |->
        [ normalizer_params |->
            NormalizerUpdate(r, ts[r].normalizer_params, trans),
          env_state |-> NextEnvState(trans[r]),
          buffer_state |-> BufferInsert(buffer_state[r], trans[r]),
          inserted |-> hist.inserted[r] + Len(trans[r]) ]]

(* The training_state.replace(...) after get_experience. *)
AfterExperienceNumEnvs(r, x) ==
  [ts[r] EXCEPT !.normalizer_params = x[r].normalizer_params,
                !.env_steps = ts[r].env_steps + cfg.num_envs]

AfterExperience(r, x) ==
  [ts[r] EXCEPT !.normalizer_params = x[r].normalizer_params,
                !.env_steps = ts[r].env_steps + env_steps_per_actor_step]

(* train() splits the prefill keys and calls the pmapped prefill; the     *)
(* insert of a batch larger than the queue fails as the scan is built.     *)
PrefillStart ==
  /\ pc = "prefill_start"
  /\ local_key' = [p \in Processes |-> Split(local_key[p], 2)[2]]
  /\ IF InsertFits(envs_per_replica)
       THEN /\ keys' = [r \in Replicas |->
                          [ scan |-> Split(Split(local_key[ProcessOf(r)], 2)[1],
                                           local_devices_to_use)[LocalIndex(r)],
                            train |-> <<>> ]]
            /\ pc' = "prefill"
            /\ err' = err
       ELSE /\ Fail("CapacityError")
            /\ keys' = keys
  /\ it' = 0
  /\ UNCHANGED <<cfg, ts, env_state, buffer_state, epochs, current_step,
                 transitions, nsgd, sgd, args, evaluator, io, hist>>

(* One iteration f of the prefill scan. *)
PrefillStep ==
  /\ pc = "prefill"
  /\ it < num_prefill_actor_steps
  /\ LET x == get_experience([r \in Replicas |-> Split(keys[r].scan, 2)[1]])
     IN /\ ts' = [r \in Replicas |-> AfterExperience(r, x)]
        /\ env_state' = [r \in Replicas |-> x[r].env_state]
        /\ buffer_state' = [r \in Replicas |-> x[r].buffer_state]
        /\ hist' = [hist EXCEPT
                      !.inserted = [r \in Replicas |-> x[r].inserted],
                      !.prefill_steps = hist.prefill_steps + 1]
  /\ keys' = [r \in Replicas |->
                [keys[r] EXCEPT !.scan = Split(keys[r].scan, 2)[2]]]
  /\ it' = it + 1
  /\ UNCHANGED <<cfg, pc, err, local_key, epochs, current_step, transitions,
                 nsgd, sgd, args, evaluator, io>>

(* jnp.sum(jax.vmap(replay_buffer.size)(buffer_state)) on host process p:  *)
(* the sum over its local devices.                                         *)
replay_size(p) ==
  SumOver([r \in Replicas |-> BufferSize(buffer_state[r])], LocalReplicas(p))

(* The prefill scan has returned: the assertion on the replay size. *)
PrefillDone ==
  /\ pc = "prefill"
  /\ it = num_prefill_actor_steps
  /\ IF \A p \in Processes : replay_size(p) >= cfg.min_replay_size
       THEN pc' = "epoch_start" /\ err' = err
       ELSE Fail("AssertionError: replay_size")
  /\ current_step' = 0
  /\ UNCHANGED <<cfg, ts, env_state, buffer_state, local_key, keys, it,
                 epochs, transitions, nsgd, sgd, args, evaluator, io, hist>>

----------------------------------------------------------------------------
(* One epoch: training_epoch_with_timing, training_epoch, training_step.   *)

(* train() splits the epoch keys and calls the pmapped epoch; a sample     *)
(* that does not divide into grad_updates_per_step minibatches fails as    *)
(* the scan is built.                                                      *)
EpochStart ==
  /\ pc = "epoch_start"
  /\ local_key' = [p \in Processes |-> Split(local_key[p], 2)[2]]
  /\ IF ReshapeOK
       THEN /\ keys' = [r \in Replicas |->
                          [ scan |-> Split(Split(local_key[ProcessOf(r)], 2)[1],
                                           local_devices_to_use)[LocalIndex(r)],
                            train |-> <<>> ]]
            /\ pc' = IF num_training_steps_per_epoch > 0
                       THEN "experience" ELSE "epoch_end"
            /\ err' = err
       ELSE /\ Fail("ReshapeError")
            /\ keys' = keys
  /\ it' = 0
  /\ UNCHANGED <<cfg, ts, env_state, buffer_state, epochs, current_step,
                 transitions, nsgd, sgd, args, evaluator, io, hist>>

(* training_step, first part: the keys, get_experience, env_steps. *)
Experience ==
  /\ pc = "experience"
  /\ it < num_training_steps_per_epoch
  /\ LET k == [r \in Replicas |-> Split(keys[r].scan, 2)[1]]
         experience_key == [r \in Replicas |-> Split(k[r], 2)[1]]
         training_key == [r \in Replicas |-> Split(k[r], 2)[2]]
         x == get_experience(experience_key)
     IN /\ ts' = [r \in Replicas |-> AfterExperience(r, x)]
        /\ env_state' = [r \in Replicas |-> x[r].env_state]
        /\ buffer_state' = [r \in Replicas |-> x[r].buffer_state]
        /\ keys' = [r \in Replicas |->
                      [ scan |-> Split(keys[r].scan, 2)[2],
                        train |-> training_key[r] ]]
        /\ hist' = [hist EXCEPT
                      !.inserted = [r \in Replicas |-> x[r].inserted],
                      !.actor = 1, !.sample = 0, !.sgd = 0,
                      !.consumed = <<>>,
                      !.gs_start = ts[1].gradient_steps]
  /\ pc' = "sample"
  /\ UNCHANGED <<cfg, err, local_key, it, epochs, current_step, transitions,
                 nsgd, sgd, args, evaluator, io>>

(* training_step, second part: replay_buffer.sample and the reshape. *)
Sample ==
  /\ pc = "sample"
  /\ LET x == [r \in Replicas |-> BufferSample(buffer_state[r])]
     IN /\ buffer_state' = [r \in Replicas |-> x[r].state]
        /\ transitions' = [r \in Replicas |-> Reshape(x[r].batch)]
  /\ nsgd' = 0
  /\ hist' = [hist EXCEPT !.sample = hist.sample + 1]
  /\ pc' = "sgd_alpha"
  /\ UNCHANGED <<cfg, err, ts, env_state, local_key, keys, it, epochs,
                 current_step, sgd, args, evaluator, io>>

----------------------------------------------------------------------------
(* sgd_step, statement by statement.  training_state (ts) is the carry the *)
(* step was called with; the results of the updates are locals (sgd) until *)
(* the new TrainingState is built.                                         *)

(* The minibatch the scan hands to the running sgd_step. *)
MinibatchFirst(r) == transitions[r][1]
Minibatch(r) == transitions[r][nsgd + 1]

(* The ids of the records of a minibatch. *)
Ids(mb) == [j \in 1..Len(mb) |-> mb[j].id]

(* key, key_alpha, key_sub_q, key_sub_policy, key_policy *)
SgdKeys(r) == Split(keys[r].train, 5)

ZeroDict == [k \in RewardKeys |-> 0]
NoLocals ==
  [ alpha_params |-> 0, alpha_optimizer_state |-> 0,
    sub_q_params |-> ZeroDict, sub_q_optimizer_state |-> 0,
    sub_policy_params |-> ZeroDict, sub_policy_optimizer_state |-> 0,
    policy_params |-> 0, policy_optimizer_state |-> 0 ]

AlphaUpdated(r) == Exp(sgd[r].alpha_params)

(* alpha = jnp.exp(training_state.alpha_params) *)
Alpha(r) == Exp(ts[r].alpha_params)

(* What alpha_update is called with. *)
AlphaArgs(r) ==
  [ alpha_params |-> ts[r].alpha_params,
    policy_params |-> ts[r].policy_params,
    normalizer_params |-> ts[r].normalizer_params,
    key |-> SgdKeys(r)[2] ]

SubQArgsSharedPolicy(r) ==
  [ sub_q_params |-> ts[r].sub_q_params,
    sub_policy_params |-> [k \in RewardKeys |-> ts[r].policy_params],
    normalizer_params |-> ts[r].normalizer_params,
    sub_target_q_params |-> ts[r].sub_target_q_params,
    alpha |-> Alpha(r),
    key |-> SgdKeys(r)[3] ]

(* What sub_q_update is called with. *)
SubQArgs(r) ==
  [ sub_q_params |-> ts[r].sub_q_params,
    sub_policy_params |-> ts[r].sub_policy_params,
    normalizer_params |-> ts[r].normalizer_params,
    sub_target_q_params |-> ts[r].sub_target_q_params,
    alpha |-> Alpha(r),
    key |-> SgdKeys(r)[3] ]

(* What sub_policy_update is called with. *)
SubPolicyArgs(r) ==
  [ sub_policy_params |-> ts[r].sub_policy_params,
    normalizer_params |-> ts[r].normalizer_params,
    sub_q_params |-> ts[r].sub_q_params,
    alpha |-> Alpha(r),
    key |-> SgdKeys(r)[4] ]

PolicyArgsUpdatedSubQ(r) ==
  [ policy_params |-> ts[r].policy_params,
    normalizer_params |-> ts[r].normalizer_params,
    sub_q_params |-> sgd[r].sub_q_params,
    alpha |-> Alpha(r),
    key |-> SgdKeys(r)[5] ]

(* What policy_update is called with. *)
PolicyArgs(r) ==
  [ policy_params |-> ts[r].policy_params,
    normalizer_params |-> ts[r].normalizer_params,
    sub_q_params |-> ts[r].sub_q_params,
    alpha |-> Alpha(r),
    key |-> SgdKeys(r)[5] ]

SgdAlpha ==
  /\ pc = "sgd_alpha"
  /\ LET a == [r \in Replicas |-> AlphaArgs(r)]
         g == [r \in Replicas |-> alpha_loss(a[r], Minibatch(r))]
     IN /\ sgd' = [r \in Replicas |->
                     [NoLocals EXCEPT
                        !.alpha_params = GradientUpdate(r, a[r].alpha_params, g),
                        !.alpha_optimizer_state =
                           ts[r].alpha_optimizer_state + 1]]
        /\ args' = [r \in Replicas |->
                      [ alpha |-> a[r], sub_q |-> <<>>, sub_policy |-> <<>>,
                        policy |-> <<>> ]]
  /\ pc' = "sgd_sub_q"
  /\ UNCHANGED <<cfg, err, ts, env_state, buffer_state, local_key, keys, it,
                 epochs, current_step, transitions, nsgd, evaluator, io, hist>>

SgdSubQ ==
  /\ pc = "sgd_sub_q"
  /\ LET a == [r \in Replicas |-> SubQArgs(r)]
         g == [r \in Replicas |-> sub_q_loss(a[r], Minibatch(r))]
     IN /\ sgd' = [r \in Replicas |->
                     [sgd[r] EXCEPT
                        !.sub_q_params =
                           GradientUpdateDict(r, a[r].sub_q_params, g),
                        !.sub_q_optimizer_state =
                           ts[r].sub_q_optimizer_state + 1]]
        /\ args' = [r \in Replicas |-> [args[r] EXCEPT !.sub_q = a[r]]]
  /\ pc' = "sgd_sub_policy"
  /\ UNCHANGED <<cfg, err, ts, env_state, buffer_state, local_key, keys, it,
                 epochs, current_step, transitions, nsgd, evaluator, io, hist>>

SgdSubPolicy ==
  /\ pc = "sgd_sub_policy"
  /\ LET a == [r \in Replicas |-> SubPolicyArgs(r)]
         g == [r \in Replicas |-> sub_policy_loss(a[r], Minibatch(r))]
     IN /\ sgd' = [r \in Replicas |->
                     [sgd[r] EXCEPT
                        !.sub_policy_params =
                           GradientUpdateDict(r, a[r].sub_policy_params, g),
                        !.sub_policy_optimizer_state =
                           ts[r].sub_policy_optimizer_state + 1]]
        /\ args' = [r \in Replicas |-> [args[r] EXCEPT !.sub_policy = a[r]]]
  /\ pc' = "sgd_policy"
  /\ UNCHANGED <<cfg, err, ts, env_state, buffer_state, local_key, keys, it,
                 epochs, current_step, transitions, nsgd, evaluator, io, hist>>

SgdPolicy ==
  /\ pc = "sgd_policy"
  /\ LET a == [r \in Replicas |-> PolicyArgs(r)]
         g == [r \in Replicas |-> policy_loss(a[r], Minibatch(r))]
     IN /\ sgd' = [r \in Replicas |->
                     [sgd[r] EXCEPT
                        !.policy_params =
                           GradientUpdate(r, a[r].policy_params, g),
                        !.policy_optimizer_state =
                           ts[r].policy_optimizer_state + 1]]
        /\ args' = [r \in Replicas |-> [args[r] EXCEPT !.policy = a[r]]]
  /\ pc' = "sgd_commit"
  /\ UNCHANGED <<cfg, err, ts, env_state, buffer_state, local_key, keys, it,
                 epochs, current_step, transitions, nsgd, evaluator, io, hist>>

NewTrainingStateCountsEnvSteps(r) ==
  [ sub_q_params |-> sgd[r].sub_q_params,
    sub_q_optimizer_state |-> sgd[r].sub_q_optimizer_state,
    sub_policy_params |-> sgd[r].sub_policy_params,
    sub_policy_optimizer_state |-> sgd[r].sub_policy_optimizer_state,
    policy_params |-> sgd[r].policy_params,
    policy_optimizer_state |-> sgd[r].policy_optimizer_state,
    sub_target_q_params |->
      TargetUpdate(ts[r].sub_target_q_params, sgd[r].sub_q_params),
    gradient_steps |-> ts[r].gradient_steps + 1,
    env_steps |-> ts[r].env_steps + 1,
    alpha_optimizer_state |-> sgd[r].alpha_optimizer_state,
    alpha_params |-> sgd[r].alpha_params,
    normalizer_params |-> ts[r].normalizer_params ]

(* The new TrainingState sgd_step returns. *)
NewTrainingState(r) ==
  [ sub_q_params |-> sgd[r].sub_q_params,
    sub_q_optimizer_state |-> sgd[r].sub_q_optimizer_state,
    sub_policy_params |-> sgd[r].sub_policy_params,
    sub_policy_optimizer_state |-> sgd[r].sub_policy_optimizer_state,
    policy_params |-> sgd[r].policy_params,
    policy_optimizer_state |-> sgd[r].policy_optimizer_state,
    sub_target_q_params |->
      TargetUpdate(ts[r].sub_target_q_params, sgd[r].sub_q_params),
    gradient_steps |-> ts[r].gradient_steps + 1,
    env_steps |-> ts[r].env_steps,
    alpha_optimizer_state |-> sgd[r].alpha_optimizer_state,
    alpha_params |-> sgd[r].alpha_params,
    normalizer_params |-> ts[r].normalizer_params ]

(* How many times the scan of training_step calls sgd_step. *)
SgdCalls == cfg.grad_updates_per_step

(* The target update, the new TrainingState and the return to the scan. *)
SgdCommit ==
  /\ pc = "sgd_commit"
  /\ ts' = [r \in Replicas |-> NewTrainingState(r)]
  /\ keys' = [r \in Replicas |-> [keys[r] EXCEPT !.train = SgdKeys(r)[1]]]
  /\ nsgd' = nsgd + 1
  /\ hist' = [hist EXCEPT !.sgd = hist.sgd + 1,
                          !.consumed = Append(hist.consumed, Ids(Minibatch(1)))]
  /\ pc' = IF nsgd + 1 < SgdCalls THEN "sgd_alpha" ELSE "step_end"
  /\ UNCHANGED <<cfg, err, env_state, buffer_state, local_key, it, epochs,
                 current_step, transitions, sgd, args, evaluator, io>>

(* training_step returns to the scan of training_epoch. *)
StepEnd ==
  /\ pc = "step_end"
  /\ it' = it + 1
  /\ pc' = IF it + 1 < num_training_steps_per_epoch
             THEN "experience" ELSE "epoch_end"
  /\ UNCHANGED <<cfg, err, ts, env_state, buffer_state, local_key, keys,
                 epochs, current_step, transitions, nsgd, sgd, args,
                 evaluator, io, hist>>

(* training_epoch_with_timing: the metrics of the epoch on host process p, *)
(* the epoch taking one unit of time.                                      *)
TrainingMetrics(p) ==
  [k \in {"training/sps", "training/walltime",
          "training/buffer_current_size"} |->
     CASE k = "training/sps" ->
            env_steps_per_actor_step * num_training_steps_per_epoch
       [] k = "training/walltime" -> epochs + 2
       [] k = "training/buffer_current_size" ->
            SumOver([r \in Replicas |-> BufferSize(buffer_state[r])],
                    LocalReplicas(p)) \div local_devices_to_use]

EpochEndSavesEverywhere(p) ==
  LET step == ts[FirstLocal(p)].env_steps
      e == run_evaluation(evaluator[p], Params(p), TrainingMetrics(p), 1)
  IN [ evaluator |-> e.evaluator,
       io |-> io[p] \o << Event("save", step, Params(p)),
                          Event("eval", step, Params(p)),
                          Event("progress", step, e.metrics) >> ]

(* After the epoch on host process p: on process 0 the checkpoint keyed by *)
(* current_step, the evaluation and progress_fn.                           *)
EpochEndOf(p) ==
  LET step == ts[FirstLocal(p)].env_steps
      e == run_evaluation(evaluator[p], Params(p), TrainingMetrics(p), 1)
  IN IF p = 0
       THEN [ evaluator |-> e.evaluator,
              io |-> io[p] \o << Event("save", step, Params(p)),
                                 Event("eval", step, Params(p)),
                                 Event("progress", step, e.metrics) >> ]
       ELSE [ evaluator |-> evaluator[p], io |-> io[p] ]

EpochEndStopsAtBudget ==
  /\ pc = "epoch_end"
  /\ current_step' = ts[1].env_steps
  /\ evaluator' = [p \in Processes |-> EpochEndOf(p).evaluator]
  /\ io' = [p \in Processes |-> EpochEndOf(p).io]
  /\ epochs' = epochs + 1
  /\ pc' = IF epochs + 1 < num_evals_after_init
              /\ ts[1].env_steps < cfg.num_timesteps
             THEN "epoch_start" ELSE "finish"
  /\ UNCHANGED <<cfg, err, ts, env_state, buffer_state, local_key, keys, it,
                 transitions, nsgd, sgd, args, hist>>

EpochEnd ==
  /\ pc = "epoch_end"
  /\ current_step' = ts[1].env_steps
  /\ evaluator' = [p \in Processes |-> EpochEndOf(p).evaluator]
  /\ io' = [p \in Processes |-> EpochEndOf(p).io]
  /\ epochs' = epochs + 1
  /\ pc' = IF epochs + 1 < num_evals_after_init THEN "epoch_start" ELSE "finish"
  /\ UNCHANGED <<cfg, err, ts, env_state, buffer_state, local_key, keys, it,
                 transitions, nsgd, sgd, args, hist>>

(* pmap.assert_is_replicated(training_state) *)
IsReplicated == \A r \in Replicas : ts[r] = ts[1]

(* The end of train(): the two final assertions. *)
Finish ==
  /\ pc = "finish"
  /\ IF ~(current_step >= cfg.num_timesteps)
       THEN Fail("AssertionError: total_steps")
     ELSE IF ~IsReplicated
       THEN Fail("AssertionError: not replicated")
     ELSE pc' = "done" /\ err' = err
  /\ UNCHANGED <<cfg, ts, env_state, buffer_state, local_key, keys, it,
                 epochs, current_step, transitions, nsgd, sgd, args,
                 evaluator, io, hist>>

Next ==
  \/ CheckConfig
  \/ InitState
  \/ InitialEval
  \/ PrefillStart
  \/ PrefillStep
  \/ PrefillDone
  \/ EpochStart
  \/ Experience
  \/ Sample
  \/ SgdAlpha
  \/ SgdSubQ
  \/ SgdSubPolicy
  \/ SgdPolicy
  \/ SgdCommit
  \/ StepEnd
  \/ EpochEnd
  \/ Finish

Spec == Init /\ [][Next]_vars

----------------------------------------------------------------------------
(* Evaluator.run_evaluation on its own: an Evaluator as train() builds it, *)
(* called with any training metrics a caller may supply and any duration   *)
(* of the unroll.                                                          *)

MaxEvalCalls == 2
EvalTimeChoices == {1, 2}
TrainingMetricsChoices ==
  UNION { [K -> {7}] :
            K \in SUBSET {"eval/walltime", "eval/sps", "training/sps"} }

EvalConfigs ==
  { c \in Configs :
      /\ c.num_timesteps = MaxTimesteps /\ c.min_replay_size = 1
      /\ c.max_replay_size = -1 /\ c.num_envs = 2 /\ c.action_repeat = 1
      /\ c.num_evals = 2 /\ c.batch_size = 2 /\ c.grad_updates_per_step = 1
      /\ c.device_count = 1 /\ c.process_count = 1 }

InitEval ==
  /\ cfg \in EvalConfigs
  /\ pc = "eval"
  /\ err = "none"
  /\ ts = [r \in Replicas |->
             InitTrainingState(Split(PRNGKey(cfg.seed), 2)[1])]
  /\ evaluator =
       [p \in Processes |->
          EvaluatorInit(
            Split(FoldIn(Split(PRNGKey(cfg.seed), 2)[2], p), 4)[4])]
  /\ io = [p \in Processes |-> <<>>]
  /\ env_state = <<>>
  /\ buffer_state = <<>>
  /\ local_key = <<>>
  /\ keys = <<>>
  /\ it = 0
  /\ epochs = 0
  /\ current_step = 0
  /\ transitions = <<>>
  /\ nsgd = 0
  /\ sgd = <<>>
  /\ args = <<>>
  /\ hist = [ prefill_steps |-> 0, inserted |-> <<>>, actor |-> 0,
              sample |-> 0, sgd |-> 0, consumed |-> <<>>, gs_start |-> 0 ]

(* What the Evaluator itself measures in a call: the metrics of the unroll *)
(* and its accumulated walltime.                                           *)
EvalProduced(ev, policy_params, epoch_eval_time) ==
  MergeMetrics(
    EvalMetrics(ev, policy_params, Split(ev.key, 2)[2], epoch_eval_time),
    [k \in {"eval/walltime"} |-> ev.eval_walltime + epoch_eval_time])

(* One call of run_evaluation; the call is recorded with what it was given *)
(* and what it returned.                                                   *)
EvalCall ==
  /\ pc = "eval"
  /\ evaluator[0].evals < MaxEvalCalls
  /\ \E tm \in TrainingMetricsChoices : \E t \in EvalTimeChoices :
       LET e == run_evaluation(evaluator[0], Params(0), tm, t)
       IN /\ evaluator' = [evaluator EXCEPT ![0] = e.evaluator]
          /\ io' = [io EXCEPT ![0] =
                      Append(@, Event("call", evaluator[0].evals,
                        [ training_metrics |-> tm,
                          eval_metrics |->
                            EvalProduced(evaluator[0], Params(0), t),
                          metrics |-> e.metrics,
                          keys |-> EvalKeys(evaluator[0]) ]))]
  /\ UNCHANGED <<cfg, pc, err, ts, env_state, buffer_state, local_key, keys,
                 it, epochs, current_step, transitions, nsgd, sgd, args, hist>>

NextEval == EvalCall

SpecEval == InitEval /\ [][NextEval]_vars

----------------------------------------------------------------------------
(* generate_unroll on its own: called on any state of the evaluation envs, *)
(* with a policy made from any parameters, a key and an unroll length.     *)
(* env_state is the state passed, ts the parameters of the policy, keys    *)
(* the key, it the unroll length; args receives what the call returns.     *)

MaxUnroll == 3
UnrollKeyChoices == {PRNGKey(s) : s \in 1..2}

InitUnroll ==
  /\ cfg \in EvalConfigs
  /\ pc = "unroll"
  /\ err = "none"
  /\ ts \in [ policy_params : 0..(ParamMod - 1),
              normalizer_params : [ count : {0}, total : 0..(ParamMod - 1) ] ]
  /\ env_state \in [1..num_eval_envs -> 0..(ObsMod - 1)]
  /\ keys \in UnrollKeyChoices
  /\ it \in 0..MaxUnroll
  /\ args = <<>>
  /\ buffer_state = <<>>
  /\ local_key = <<>>
  /\ epochs = 0
  /\ current_step = 0
  /\ transitions = <<>>
  /\ nsgd = 0
  /\ sgd = <<>>
  /\ evaluator = <<>>
  /\ io = <<>>
  /\ hist = [ prefill_steps |-> 0, inserted |-> <<>>, actor |-> 0,
              sample |-> 0, sgd |-> 0, consumed |-> <<>>, gs_start |-> 0 ]

(* One call of generate_unroll. *)
GenerateUnroll ==
  /\ pc = "unroll"
  /\ LET u == generate_unroll(env_state, ts, keys, it)
     IN IF u.error = "none"
          THEN /\ args' = u
               /\ pc' = "unroll_done"
               /\ err' = err
          ELSE /\ Fail(u.error)
               /\ args' = args
  /\ UNCHANGED <<cfg, ts, env_state, buffer_state, local_key, keys, it,
                 epochs, current_step, transitions, nsgd, sgd, evaluator, io,
                 hist>>

NextUnroll == GenerateUnroll

SpecUnroll == InitUnroll /\ [][NextUnroll]_vars

----------------------------------------------------------------------------
(* Properties. *)

Built == pc \notin {"start", "init"} /\ ~(pc = "failed" /\ ts = <<>>)
InSgd == pc \in {"sgd_alpha", "sgd_sub_q", "sgd_sub_policy", "sgd_policy",
                 "sgd_commit"}
Acted(a) == DOMAIN a # {}

(* The least p with p * d >= n, found by search. *)
CeilDiv(n, d) == CHOOSE p \in 0..n : p * d >= n /\ (p - 1) * d < n

(* The prefill scan has returned. *)
PrefillOver ==
  \/ pc = "prefill" /\ it = num_prefill_actor_steps
  \/ pc \in {"epoch_start", "experience", "sample", "step_end", "epoch_end",
             "finish", "done"}
  \/ InSgd
  \/ pc = "failed" /\ err \in {"AssertionError: replay_size", "ReshapeError",
                               "AssertionError: total_steps",
                               "AssertionError: not replicated"}

C2_TrainingStep ==
  /\ pc = "sample" =>
       /\ hist.actor = 1 /\ hist.sample = 0 /\ hist.sgd = 0
       /\ \A r \in Replicas : ts[r].gradient_steps = hist.gs_start
  /\ InSgd =>
       /\ hist.actor = 1 /\ hist.sample = 1 /\ hist.sgd = nsgd
       /\ nsgd < cfg.grad_updates_per_step
       /\ \A r \in Replicas : ts[r].gradient_steps = hist.gs_start + nsgd
  /\ pc = "step_end" =>
       /\ hist.actor = 1 /\ hist.sample = 1
       /\ hist.sgd = cfg.grad_updates_per_step
       /\ Len(hist.consumed) = cfg.grad_updates_per_step
       /\ \A g \in 1..cfg.grad_updates_per_step :
            /\ hist.consumed[g] = Ids(transitions[1][g])
            /\ Len(transitions[1][g]) * cfg.grad_updates_per_step
                 = sample_batch_size
       /\ \A r \in Replicas :
            ts[r].gradient_steps = hist.gs_start + cfg.grad_updates_per_step

C2_Witness ==
  /\ pc = "step_end"
  /\ cfg.grad_updates_per_step = 2
  /\ hist.sgd = 2
  /\ transitions[1][1] # transitions[1][2]

(* The checks train() makes before it builds anything. *)
StartupErrors ==
  {"ValueError", "AssertionError: prefill env steps", "AssertionError: num_envs"}

(* C3: a run that passes the start-up checks ends, and ends with           *)
(* env_steps >= num_timesteps: it fails nowhere after start-up.            *)
C3_RunReachesBudget ==
  /\ pc = "failed" => err \in StartupErrors
  /\ pc = "done" => current_step >= cfg.num_timesteps

(* C4, as claimed: the shared-policy update is given the sub-Q parameters  *)
(* this step has already updated.                                          *)
C4_PolicyReadsUpdatedSubQ ==
  pc = "sgd_commit" =>
    \A r \in Replicas : args[r].policy.sub_q_params = sgd[r].sub_q_params

(* C4, amended: the updates act in the order temperature, sub-critics,     *)
(* sub-policies, shared policy, and the shared-policy update is given the  *)
(* sub-Q parameters the step started with.                                 *)
C4_PolicyReadsStepStartSubQ ==
  /\ (InSgd /\ pc # "sgd_alpha") =>
       \A r \in Replicas :
         /\ Acted(args[r].alpha)
         /\ Acted(args[r].sub_q) <=>
              pc \in {"sgd_sub_policy", "sgd_policy", "sgd_commit"}
         /\ Acted(args[r].sub_policy) <=> pc \in {"sgd_policy", "sgd_commit"}
         /\ Acted(args[r].policy) <=> pc = "sgd_commit"
  /\ pc = "sgd_commit" =>
       \A r \in Replicas : args[r].policy.sub_q_params = ts[r].sub_q_params

C4_Witness ==
  /\ pc = "sgd_commit"
  /\ sgd[1].sub_q_params # ts[1].sub_q_params
  /\ args[1].policy.sub_q_params # sgd[1].sub_q_params

SubQActed == pc \in {"sgd_sub_policy", "sgd_policy", "sgd_commit"}

(* C5, as claimed: the critic loss of every key samples the next action    *)
(* from the shared policy's parameters.                                    *)
C5_CriticUsesSharedPolicy ==
  SubQActed =>
    \A r \in Replicas : \A k \in RewardKeys :
      args[r].sub_q.sub_policy_params[k] = ts[r].policy_params

(* C5, amended: the critic loss of key k samples the next action from the  *)
(* parameters of sub-policy k and evaluates the target sub-Q network of    *)
(* key k.                                                                  *)
C5_CriticUsesSubPolicy ==
  SubQActed =>
    \A r \in Replicas : \A k \in RewardKeys :
      /\ args[r].sub_q.sub_policy_params[k] = ts[r].sub_policy_params[k]
      /\ args[r].sub_q.sub_target_q_params[k] = ts[r].sub_target_q_params[k]
      /\ args[r].sub_q.sub_q_params[k] = ts[r].sub_q_params[k]

C5_Witness ==
  /\ pc = "sgd_sub_policy"
  /\ \E k \in RewardKeys : ts[1].sub_policy_params[k] # ts[1].policy_params
  /\ ts[1].sub_policy_params[1] # ts[1].sub_policy_params[2]

(* C6: every replica holds the same training state after every step,      *)
(* whatever its keys, env states and queue hold, and the replication       *)
(* check at the end of the run does not fail.                              *)
C6_ReplicasIdentical ==
  /\ Built => \A r \in Replicas : ts[r] = ts[1]
  /\ err # "AssertionError: not replicated"

C6_Witness ==
  /\ pc = "step_end"
  /\ cfg.device_count >= 2
  /\ ts[1].gradient_steps >= 2
  /\ keys[1] # keys[2]
  /\ env_state[1] # env_state[2]
  /\ \E p \in 1..Capacity :
       buffer_state[1].data[p].observation # buffer_state[2].data[p].observation
  /\ MbObs(transitions[1][1]) # MbObs(transitions[2][1])
  /\ ts[1] = ts[2]

(* The queue of replica r. *)
QSize(r) == buffer_state[r].current_size
QIds(r) == {buffer_state[r].data[p].id : p \in 1..Len(buffer_state[r].data)}
Present(r, n) == <<r, n>> \in QIds(r)

C7_SizeInv ==
  Built => \A r \in Replicas :
             /\ QSize(r) = Min(hist.inserted[r], Len(buffer_state[r].data))
             /\ QSize(r) <= Len(buffer_state[r].data)
             /\ BufferSize(buffer_state[r]) = QSize(r)

C7_SizeStep ==
  (Built /\ Built') =>
     \A r \in Replicas : buffer_state'[r].current_size >= QSize(r)

(* C7: the size of a queue of capacity C is min(records inserted, C): the  *)
(* running sum up to C, then C; it never exceeds C and never decreases.    *)
C7_SizeIsMinOfInsertedAndCapacity == []C7_SizeInv /\ [][C7_SizeStep]_vars

C7_Witness ==
  /\ pc = "step_end"
  /\ hist.inserted[1] > Capacity
  /\ QSize(1) = Capacity
  /\ Capacity >= 2

Sampled(r) ==
  {transitions[r][g][j] :
     g \in 1..Len(transitions[r]), j \in 1..Len(transitions[r][1])}

(* C9: wherever the scheduler samples, the sample has sample_batch_size    *)
(* records, each drawn at an index in [0, current_size) and so written by  *)
(* an insert, never the zero record of an unwritten slot.                  *)
C9_SampleFromWrittenSlots ==
  /\ pc = "sample" =>
       \A r \in Replicas :
         /\ QSize(r) >= 1
         /\ Len(SampleIndices(buffer_state[r])) = sample_batch_size
         /\ \A i \in 1..sample_batch_size :
              SampleIndices(buffer_state[r])[i] \in 0..(QSize(r) - 1)
         /\ Len(BufferSample(buffer_state[r]).batch) = sample_batch_size
  /\ (InSgd \/ pc = "step_end") =>
       \A r \in Replicas :
         /\ SumSeq([g \in 1..Len(transitions[r]) |-> Len(transitions[r][g])])
              = sample_batch_size
         /\ \A x \in Sampled(r) :
              /\ x.id # <<0, 0>>
              /\ x.id[1] = r
              /\ x.id[2] \in 1..hist.inserted[r]
              /\ \E p \in 1..QSize(r) : buffer_state[r].data[p] = x

C9_Witness ==
  /\ pc = "sgd_alpha"
  /\ QSize(1) < Capacity
  /\ buffer_state[1].data[Capacity] = ZeroTransition
  /\ Cardinality(Sampled(1)) >= 2

(* C10: when the prefill scan returns, the queues together hold at least   *)
(* min_replay_size records, so the assertion after prefill does not fail.  *)
C10_PrefillFillsQueue ==
  /\ (pc = "prefill" /\ it = num_prefill_actor_steps) =>
        SumOver([r \in Replicas |-> BufferSize(buffer_state[r])], Replicas)
          >= cfg.min_replay_size
  /\ err # "AssertionError: replay_size"

C10_FailingInput ==
  /\ err = "AssertionError: replay_size"
  /\ cfg.num_timesteps = 5 /\ cfg.min_replay_size = 3
  /\ cfg.max_replay_size = 2 /\ cfg.num_envs = 2 /\ cfg.device_count = 1
  /\ cfg.action_repeat = 1

----------------------------------------------------------------------------
(* The epochs of a run. *)

(* The env steps of prefill and the iterations of one epoch, computed from *)
(* the configuration alone.                                                *)
PrefillEnvSteps ==
  CeilDiv(cfg.min_replay_size, cfg.num_envs) * cfg.action_repeat * cfg.num_envs
EpochEnvSteps == Max(cfg.num_evals - 1, 1) * cfg.action_repeat * cfg.num_envs
CeilOfBudget == CeilDiv(cfg.num_timesteps - PrefillEnvSteps, EpochEnvSteps)
InEpoch == pc \in {"experience", "sample", "step_end"} \/ InSgd

C12_NoEpochOnceBudgetMet ==
  pc = "epoch_start" => ts[1].env_steps < cfg.num_timesteps

(* C12, amended: the loop issues its epochs by count: an epoch is started  *)
(* exactly while fewer than max(num_evals - 1, 1) epochs have completed,   *)
(* whatever env_steps is; at the start of epoch j (from 0) env_steps is    *)
(* the prefill steps plus j epochs of iterations.                          *)
C12_EpochsIssuedByCount ==
  /\ pc = "epoch_start" =>
       /\ epochs < Max(cfg.num_evals - 1, 1)
       /\ \A r \in Replicas :
            ts[r].env_steps
              = PrefillEnvSteps
                  + epochs * CeilOfBudget * cfg.action_repeat * cfg.num_envs
  /\ pc = "finish" => ~(epochs < Max(cfg.num_evals - 1, 1))

C12_Witness ==
  /\ pc = "epoch_start" /\ epochs >= 1
  /\ ts[1].env_steps >= cfg.num_timesteps

----------------------------------------------------------------------------
(* Failures. *)

NothingBuilt ==
  ts = <<>> /\ env_state = <<>> /\ buffer_state = <<>> /\ evaluator = <<>>

(* C13: train fails at start-up whenever min_replay_size >= num_timesteps  *)
(* or num_envs is not a multiple of the number of replicas, before any     *)
(* training state, env state, queue or Evaluator exists.                   *)
C13_StartupFailures ==
  /\ (pc # "start"
        /\ (cfg.min_replay_size >= cfg.num_timesteps
              \/ cfg.num_envs % cfg.device_count # 0)) =>
       pc = "failed" /\ err \in StartupErrors /\ NothingBuilt
  /\ (pc # "start" /\ cfg.min_replay_size >= cfg.num_timesteps) =>
       err = "ValueError"
  /\ pc = "start" => NothingBuilt

C13_Witness ==
  /\ pc = "failed" /\ err = "AssertionError: num_envs"
  /\ cfg.min_replay_size < cfg.num_timesteps
  /\ NothingBuilt

(* C14: an insert of a batch larger than the queue's capacity fails with   *)
(* CapacityError and leaves every queue as it was (here: as initialised,   *)
(* nothing inserted); the run ends there.                                  *)
C14_OversizeInsertFails ==
  /\ (Built /\ pc \notin {"initial_eval", "prefill_start"}
        /\ envs_per_replica > Capacity) =>
       /\ pc = "failed" /\ err = "CapacityError"
       /\ \A r \in Replicas :
            /\ hist.inserted[r] = 0
            /\ buffer_state[r].current_size = 0
            /\ buffer_state[r].current_position = 0
            /\ \A q \in 1..Len(buffer_state[r].data) :
                 buffer_state[r].data[q] = ZeroTransition
  /\ err = "CapacityError" =>
       envs_per_replica > Capacity /\ pc = "failed" /\ ~ENABLED Next

C14_Witness ==
  /\ pc = "failed" /\ err = "CapacityError"
  /\ Capacity >= 1
  /\ buffer_state[1].current_size = 0

----------------------------------------------------------------------------
(* The target update and the critic's mask. *)

(* target' = (1 - tau) * target + tau * q with tau = 1 / TauDen, on        *)
(* fractions, cross-multiplied.                                            *)
IsPolyak(new, old, q) ==
  new.num * old.den * TauDen
    = ((TauDen - 1) * old.num + q * old.den) * new.den

C15_Step ==
  pc = "sgd_commit" =>
    \A r \in Replicas : \A k \in RewardKeys :
      LET old == ts[r].sub_target_q_params[k]
          new == ts'[r].sub_target_q_params[k]
          q == sgd[r].sub_q_params[k]
      IN /\ TauDen > 1
         /\ args[r].sub_q.sub_q_params[k] = ts[r].sub_q_params[k]
         /\ ts'[r].sub_q_params[k] = q
         /\ IsPolyak(new, old, q)
         /\ old.num # q * old.den => new.num # q * new.den
         /\ (old.num = 0 /\ q = 1) => new.num * TauDen = new.den

(* C15: at the end of a gradient update step every target of every key     *)
(* becomes (1 - tau) * old target + tau * new sub-Q, the sub-Q parameters   *)
(* this step's sub-critic update produced (sub-Q 1, target 0 give tau);    *)
(* it is not a copy of the sub-Q parameters unless they were equal.        *)
C15_PolyakTargetUpdate == [][C15_Step]_vars

C15_Witness ==
  /\ pc = "sgd_commit"
  /\ ts[1].gradient_steps >= 1
  /\ \E k \in RewardKeys :
       /\ ts[1].sub_target_q_params[k].den > 1
       /\ sgd[1].sub_q_params[k] # ts[1].sub_q_params[k]
       /\ ts[1].sub_target_q_params[k].num
            # sgd[1].sub_q_params[k] * ts[1].sub_target_q_params[k].den

Square(x) == x * x

(* A record with its reward for key k, discount and truncation replaced. *)
With(rec, k, reward, discount, truncation) ==
  [rec EXCEPT !.sub_rewards[k] = reward, !.discount = discount,
              !.truncation = truncation]

(* C16: in the critic loss a record with truncation 1 contributes 0 to the *)
(* squared TD error whatever its reward and discount, and the same record  *)
(* with truncation 0 contributes the square of its TD error, which is not  *)
(* 0 when the TD error is not 0.  Stated where sgd_step is about to        *)
(* compute the critic loss on its minibatch.                               *)
C16_TruncationMasksTdError ==
  pc = "sgd_sub_q" =>
    \A r \in Replicas : \A j \in 1..Len(Minibatch(r)) :
      \A k \in RewardKeys : \A reward \in 0..2 : \A discount \in 0..1 :
        LET rec == Minibatch(r)[j]
            truncated == With(rec, k, reward, discount, 1)
            kept == With(rec, k, reward, discount, 0)
        IN /\ MbTd(<<truncated>>, k) = 0
           /\ MbTd(<<kept>>, k) = Square(TdError(kept, k))
           /\ TdError(kept, k) # 0 => MbTd(<<kept>>, k) # 0
           /\ MbTd(<<kept, truncated>>, k) = MbTd(<<kept>>, k)
           /\ MbTd(<<rec>>, k)
                = IF rec.truncation = 1 THEN 0 ELSE Square(TdError(rec, k))

C16_Witness ==
  /\ pc = "sgd_sub_q"
  /\ \E j \in 1..Len(Minibatch(1)) : \E k \in RewardKeys :
       /\ Minibatch(1)[j].truncation = 1
       /\ Minibatch(1)[j].sub_rewards[k] # 0
       /\ TdError(Minibatch(1)[j], k) # 0
  /\ \E j \in 1..Len(Minibatch(1)) : Minibatch(1)[j].truncation = 0

----------------------------------------------------------------------------
(* Checkpoints, evaluations and the progress callback. *)

(* The events of kind op of host process p, in order. *)
Events(p, op) == SelectSeq(io[p], LAMBDA e : e.op = op)

(* The events of the initial evaluation in the log of process 0. *)
InitialEvents ==
  IF cfg.num_evals > 1 /\ pc # "initial_eval" THEN 2 ELSE 0

(* env_steps once j epochs have completed. *)
StepsAfterEpoch(j) ==
  PrefillEnvSteps + j * CeilOfBudget * cfg.action_repeat * cfg.num_envs

(* C17: after each completed epoch process 0, and no other process, saves  *)
(* the policy parameters and normalizer statistics under current_step,     *)
(* then runs the Evaluator on the same parameters: one checkpoint and one  *)
(* evaluation per epoch.                                                   *)
C17_CheckpointAndEvalPerEpoch ==
  Built =>
    /\ Len(io[0]) = InitialEvents + 3 * epochs
    /\ \A j \in 1..epochs :
         LET save == io[0][InitialEvents + 3 * j - 2]
             eval == io[0][InitialEvents + 3 * j - 1]
         IN /\ save.op = "save" /\ eval.op = "eval"
            /\ save.step = StepsAfterEpoch(j) /\ eval.step = save.step
            /\ eval.data = save.data
    /\ Len(Events(0, "save")) = epochs
    /\ evaluator[0].evals = epochs + InitialEvents \div 2
    /\ (epochs > 0 /\ pc \in {"epoch_start", "finish", "done"}) =>
         /\ io[0][Len(io[0]) - 2].data = Params(0)
         /\ io[0][Len(io[0]) - 2].step = current_step
    /\ \A p \in Processes \ {0} : io[p] = <<>> /\ evaluator[p].evals = 0

C17_Witness ==
  /\ pc = "done" /\ epochs = 2
  /\ cfg.process_count = 2
  /\ Len(Events(0, "save")) = 2 /\ io[1] = <<>>
  /\ Events(0, "save")[1].step < Events(0, "save")[2].step

(* C18, as claimed: in every run progress_fn is called once at step 0 and  *)
(* once after each epoch, E + 1 calls for E epochs.                        *)
C18_ProgressCallsEpochsPlusOne ==
  pc = "done" =>
    /\ Len(Events(0, "progress")) = epochs + 1
    /\ Events(0, "progress")[1].step = 0

(* C18, amended: progress_fn is called (by process 0) once at step 0       *)
(* before any training only when num_evals > 1, and once after each        *)
(* completed epoch, with env_steps at that moment and the metrics of the   *)
(* evaluation: E + 1 calls when num_evals > 1, E calls otherwise, the      *)
(* step counts non-decreasing.                                             *)
C18_ProgressCalls ==
  Built =>
    LET calls == Events(0, "progress")
    IN /\ Len(calls) = epochs + InitialEvents \div 2
       /\ \A i \in 1..Len(calls) :
            /\ calls[i].step = StepsAfterEpoch(i - InitialEvents \div 2)
                 \/ (i = 1 /\ InitialEvents = 2 /\ calls[i].step = 0)
            /\ "eval/walltime" \in DOMAIN calls[i].data
            /\ i > 1 => calls[i - 1].step <= calls[i].step
       /\ pc = "prefill_start" =>
            /\ Len(calls) = IF cfg.num_evals > 1 THEN 1 ELSE 0
            /\ \A r \in Replicas :
                 ts[r].env_steps = 0 /\ ts[r].gradient_steps = 0
       /\ \A p \in Processes \ {0} : Events(p, "progress") = <<>>

C18_Witness ==
  /\ pc = "done" /\ cfg.num_evals = 1 /\ epochs = 1
  /\ Len(Events(0, "progress")) = 1
  /\ Events(0, "progress")[1].step >= cfg.num_timesteps

(* C19: run_evaluation returns one flat mapping holding the evaluation     *)
(* metrics and the caller's training metrics, and for every key in both    *)
(* the evaluation's value, 'eval/walltime' included.                       *)
C19_EvalValueWinsOnEveryKey ==
  pc = "eval" =>
    \A i \in 1..Len(io[0]) :
      LET c == io[0][i].data
      IN /\ DOMAIN c.metrics
              = DOMAIN c.eval_metrics \cup DOMAIN c.training_metrics
         /\ \A k \in DOMAIN c.eval_metrics :
              c.metrics[k] = c.eval_metrics[k]
         /\ \A k \in DOMAIN c.training_metrics \ DOMAIN c.eval_metrics :
              c.metrics[k] = c.training_metrics[k]

C19_FailingInput ==
  /\ pc = "eval" /\ Len(io[0]) = 1
  /\ DOMAIN io[0][1].data.training_metrics = {"eval/walltime"}
  /\ io[0][1].data.metrics["eval/walltime"] = 7
  /\ io[0][1].data.eval_metrics["eval/walltime"] # 7

----------------------------------------------------------------------------
(* The keys of the reward decomposition. *)

(* C20: in every training state the sub-policy, sub-Q and target mappings  *)
(* have the key set of the reward decomposition, and so has sub_rewards of *)
(* every record collected (held by a queue) or sampled; the key set never  *)
(* changes.                                                                *)
C20_SameKeySetEverywhere ==
  Built =>
    \A r \in Replicas :
      /\ DOMAIN ts[r].sub_policy_params = RewardKeys
      /\ DOMAIN ts[r].sub_q_params = RewardKeys
      /\ DOMAIN ts[r].sub_target_q_params = RewardKeys
      /\ \A q \in 1..Len(buffer_state[r].data) :
           DOMAIN buffer_state[r].data[q].sub_rewards = RewardKeys
      /\ Acted(transitions) =>
           \A g \in 1..Len(transitions[r]) :
             \A j \in 1..Len(transitions[r][g]) :
               DOMAIN transitions[r][g][j].sub_rewards = RewardKeys
      /\ (InSgd /\ pc # "sgd_alpha") =>
           /\ DOMAIN sgd[r].sub_q_params = RewardKeys
           /\ DOMAIN sgd[r].sub_policy_params = RewardKeys

C20_Witness ==
  /\ pc = "step_end"
  /\ ts[1].gradient_steps >= 2
  /\ buffer_state[1].current_size >= 2
  /\ \E q \in 1..Len(buffer_state[1].data) :
       buffer_state[1].data[q].id # <<0, 0>>
  /\ Cardinality(DOMAIN ts[1].sub_target_q_params) = 2

----------------------------------------------------------------------------
(* The counters of the training state. *)

(* The step about to be taken is an actor step: an iteration of the        *)
(* prefill scan or the first part of a training_step.                      *)
ActorStepNext ==
  \/ pc = "prefill" /\ it < num_prefill_actor_steps
  \/ pc = "experience"

C21_Step ==
  (ts # <<>> /\ ts' # <<>>) =>
    \A r \in Replicas :
      /\ ts'[r].gradient_steps >= ts[r].gradient_steps
      /\ ts'[r].env_steps >= ts[r].env_steps
      /\ ts'[r].env_steps
           = IF ActorStepNext
               THEN ts[r].env_steps + cfg.action_repeat * cfg.num_envs
               ELSE ts[r].env_steps

C21_Inv ==
  \A r \in DOMAIN ts :
    /\ pc \in {"epoch_start", "finish", "done"} =>
         ts[r].env_steps = StepsAfterEpoch(epochs)
    /\ pc = "epoch_end" => ts[r].env_steps = StepsAfterEpoch(epochs + 1)
    /\ pc = "prefill" =>
         ts[r].env_steps = it * cfg.action_repeat * cfg.num_envs

(* C21: gradient_steps and env_steps never decrease; env_steps grows by    *)
(* exactly action_repeat * num_envs on every actor step of prefill and of  *)
(* every epoch and is changed by nothing else, so after epoch j it is the  *)
(* prefill env steps plus j epochs of iterations of that many steps each.  *)
C21_CountersAdvance == []C21_Inv /\ [][C21_Step]_vars

C21_Witness ==
  /\ pc = "done" /\ epochs = 2
  /\ cfg.action_repeat = 2
  /\ ts[1].env_steps = StepsAfterEpoch(2)
  /\ ts[1].env_steps > PrefillEnvSteps
  /\ ts[1].gradient_steps > 0

----------------------------------------------------------------------------
(* generate_unroll. *)

(* The state the i-th application (from 1) of actor_step started from. *)
UnrollStateBefore(i) ==
  IF i = 1 THEN env_state ELSE NextEnvState(args.data[i - 1])

(* C22, as claimed: generate_unroll with unroll_length n completes, having *)
(* applied actor_step exactly n times, each application starting from the  *)
(* state the previous one returned; it returns the n transitions in the    *)
(* order produced, each with its sub_rewards, and the state after the n-th *)
(* step.  This holds for the unroll of episode_length // action_repeat     *)
(* steps the Evaluator makes.                                              *)
C22_UnrollAppliesActorStep ==
  /\ pc # "failed"
  /\ pc = "unroll_done" =>
       /\ Len(args.data) = it
       /\ \A i \in 1..it :
            /\ \A j \in 1..num_eval_envs :
                 args.data[i][j].observation = UnrollStateBefore(i)[j]
            /\ \A j \in 1..num_eval_envs :
                 DOMAIN args.data[i][j].sub_rewards = RewardKeys
       /\ args.final_state = UnrollStateBefore(it + 1)

(* The unroll of the Evaluator: episode_length // action_repeat steps. *)
C22_FailingInput ==
  /\ pc = "failed" /\ err = "TypeError"
  /\ it = episode_length \div cfg.action_repeat
  /\ args = <<>>

----------------------------------------------------------------------------
(* Random keys. *)

(* The keys handed out by the call-th call of run_evaluation. *)
CallKeys(call) == io[0][call].data.keys

(* C23, as claimed: no key is consumed twice: over the evaluations of a    *)
(* run, every key value is handed to exactly one consumer (a split, an     *)
(* environment reset, a sampler or an unroll).                             *)
C23_NoKeyConsumedTwice ==
  pc = "eval" =>
    \A a, b \in DOMAIN io[0] :
      \A i \in DOMAIN CallKeys(a) : \A j \in DOMAIN CallKeys(b) :
        <<a, i>> # <<b, j>> => CallKeys(a)[i].key # CallKeys(b)[j].key

(* The first evaluation: the key given to generate_eval_unroll is split    *)
(* into the reset keys and split again by the scan of generate_unroll.     *)
C23_FailingInput ==
  /\ pc = "eval" /\ Len(io[0]) = 1
  /\ \E i, j \in DOMAIN CallKeys(1) :
       /\ i < j
       /\ CallKeys(1)[i] = KeyUse(Split(EvaluatorInit(
                                    Split(FoldIn(Split(PRNGKey(cfg.seed),
                                    2)[2], 0), 4)[4]).key, 2)[2], "split")
       /\ CallKeys(1)[j] = CallKeys(1)[i]

----------------------------------------------------------------------------
(* The budget of prefill. *)

(* C24, as claimed: whenever min_replay_size < num_timesteps, the env      *)
(* steps of prefill, ceil(min_replay_size / num_envs) * action_repeat *    *)
(* num_envs, do not exceed num_timesteps, and the assertion                *)
(* num_timesteps - num_prefill_env_steps >= 0 does not fail.               *)
C24_PrefillWithinBudget ==
  cfg.min_replay_size < cfg.num_timesteps =>
    /\ PrefillEnvSteps <= cfg.num_timesteps
    /\ err # "AssertionError: prefill env steps"

(* C24, amended: with min_replay_size < num_timesteps the env steps of     *)
(* prefill can still exceed num_timesteps, because they are rounded up to  *)
(* whole actor steps of action_repeat * num_envs; exactly then train()     *)
(* fails on the assertion, before anything is built.  A run that gets past *)
(* start-up has prefill env steps within num_timesteps and a non-negative  *)
(* number of iterations per epoch.                                         *)
C24_AssertionGuardsBudget ==
  /\ ( /\ pc # "start"
       /\ cfg.min_replay_size < cfg.num_timesteps
       /\ PrefillEnvSteps > cfg.num_timesteps )
       => pc = "failed" /\ err = "AssertionError: prefill env steps"
            /\ NothingBuilt
  /\ err = "AssertionError: prefill env steps" =>
       /\ cfg.min_replay_size < cfg.num_timesteps
       /\ PrefillEnvSteps > cfg.num_timesteps
  /\ (pc # "start" /\ err \notin StartupErrors) =>
       /\ num_prefill_env_steps = PrefillEnvSteps
       /\ PrefillEnvSteps <= cfg.num_timesteps
       /\ num_training_steps_per_epoch >= 0

C24_Witness ==
  /\ pc = "failed" /\ err = "AssertionError: prefill env steps"
  /\ cfg.min_replay_size < cfg.num_timesteps
  /\ cfg.action_repeat = 1
  /\ PrefillEnvSteps > cfg.num_timesteps

----------------------------------------------------------------------------
(* The entropy temperature. *)

C25_Inv ==
  SubQActed =>
    \A r \in Replicas :
      LET alpha == Exp(args[r].alpha.alpha_params)
      IN /\ args[r].alpha.alpha_params = ts[r].alpha_params
         /\ args[r].sub_q.alpha = alpha
         /\ Acted(args[r].sub_policy) => args[r].sub_policy.alpha = alpha
         /\ Acted(args[r].policy) => args[r].policy.alpha = alpha

C25_Step ==
  (ts # <<>> /\ ts' # <<>>) =>
    \A r \in Replicas :
      ts'[r].alpha_params = IF pc = "sgd_commit" THEN sgd[r].alpha_params
                                                 ELSE ts[r].alpha_params

(* C25: within one sgd_step the sub-critic, sub-policy and shared-policy   *)
(* losses are all given alpha = exp(log_alpha) of the log_alpha the        *)
(* temperature update of this step started from, not the one it produced;  *)
(* the updated log_alpha enters the training state only when the step      *)
(* returns, so the other losses first use it in the next step.             *)
C25_LossesUseStepStartAlpha == []C25_Inv /\ [][C25_Step]_vars

C25_Witness ==
  /\ pc = "sgd_commit"
  /\ ts[1].gradient_steps >= 1
  /\ ts[1].alpha_params # 0
  /\ sgd[1].alpha_params # ts[1].alpha_params
  /\ args[1].policy.alpha = Exp(ts[1].alpha_params)
  /\ args[1].policy.alpha # Exp(sgd[1].alpha_params)

----------------------------------------------------------------------------
(* What each kind of step changes. *)

(* The fields of the training state an experience step writes. *)
ExperienceFields == {"env_steps", "normalizer_params"}

C26_Step ==
  /\ InSgd =>
       /\ env_state' = env_state
       /\ buffer_state' = buffer_state
       /\ \A r \in Replicas : \A f \in ExperienceFields :
            ts'[r][f] = ts[r][f]
  /\ ActorStepNext =>
       /\ \A r \in Replicas : \A f \in DOMAIN ts[r] \ ExperienceFields :
            ts'[r][f] = ts[r][f]
       /\ \A r \in Replicas : DOMAIN ts'[r] = DOMAIN ts[r]

(* C26: a gradient update step (sgd_step, from the temperature update to   *)
(* the new training state) leaves env_steps, normalizer_params, the replay *)
(* buffer state and the env state as they were; an experience step (actor  *)
(* step, insert, normalizer update) changes of the training state only     *)
(* env_steps and normalizer_params, and leaves every parameter set,        *)
(* optimizer state, target set, alpha and gradient_steps as they were.     *)
C26_FrameEffects == [][C26_Step]_vars

C26_Witness ==
  /\ pc = "step_end"
  /\ ts[1].gradient_steps >= 2
  /\ ts[1].alpha_params # 0
  /\ ts[1].sub_q_optimizer_state >= 2
  /\ ts[1].env_steps > PrefillEnvSteps
  /\ ts[1].normalizer_params.count > 0
  /\ buffer_state[1].current_size >= 2

----------------------------------------------------------------------------
(* The fields of the training state. *)

(* C27, as claimed: every TrainingState the program constructs, at         *)
(* initialisation and at the end of every sgd_step, gives a value to every *)
(* field the TrainingState record declares: no declared field is left      *)
(* undefined.                                                              *)
C27_EveryDeclaredFieldAssigned ==
  \A r \in DOMAIN ts : DOMAIN ts[r] = TrainingStateFields

(* The first TrainingState of a run, as _init_training_state builds it. *)
C27_FailingInput ==
  /\ pc \in {"initial_eval", "prefill_start"}
  /\ ts[1] = InitTrainingState(Split(PRNGKey(cfg.seed), 2)[1])
  /\ TrainingStateFields \ DOMAIN ts[1]
       = {"sub_alpha_params", "sub_alpha_optimizer_state"}

====
